---- MODULE Spec2Model ----
(***************************************************************************)
(* Prayer counter (src/src/App.tsx): the App component as a state machine. *)
(*                                                                         *)
(* React state (count, history), the localStorage records, the calendar    *)
(* date read by todayKey(), the two HoldState refs and the browser timers  *)
(* they name are the state.  Every event handler is one action: it runs    *)
(* the handler body and commits the resulting render.  The useEffect       *)
(* callbacks whose dependencies changed in that commit run in the next     *)
(* step (RunEffects), in declaration order, and the state updates they     *)
(* request are committed with it; the browser delivers the next event      *)
(* when no effect is pending.                                              *)
(*                                                                         *)
(* Calendar dates are day numbers: the 'YYYY-MM-DD' key of todayKey() is   *)
(* zero padded, so keys are equal and ordered exactly as day numbers are.  *)
(***************************************************************************)
EXTENDS Integers, FiniteSets, Sequences, TLC

\* ---------------------------------------------------------------- bounds
MaxCount == 3       \* ticks are accepted while count < MaxCount
MaxDay == 2         \* the calendar runs over the days 0..MaxDay
MaxTimerId == 5     \* window.setTimeout / setInterval hand out ids 1..MaxTimerId
MaxTicks == 3       \* fn() calls recorded per press

Days == 0..MaxDay
Totals == 0..MaxCount
Buttons == {"inc", "dec"}

\* `null` of HoldState's `number | null`; timer ids are positive
Null == 0

VARIABLES
  count,       \* useState count (the live Tally)
  history,     \* useState history (the Ledger): day -> [date, total]
  today,       \* the local calendar date new Date() yields
  pending,     \* dependencies changed by the last commit: effects still to run
  stCount,     \* localStorage['japa.count'], raw
  stHistory,   \* localStorage['japa.history'], raw
  holdRef,     \* incHoldRef.current / decHoldRef.current
  timers,      \* live browser timers: [id, kind, btn, cur]
  nextId,      \* next timer id the browser hands out
  sess,        \* history variable: the latest press of each button
  op,          \* history variable: the last event delivered
  pre,         \* history variable: count and history when that event arrived
  rolled,      \* history variable: the date has advanced while the app runs
  incToday,    \* history variable: increment ticks since the date last changed
  settings,    \* useState settings
  stSettings,  \* localStorage['japa.settings'], raw
  streak,      \* the value useMemo(() => calcStreak(), [history]) holds
  memoDay,     \* history variable: the date calcStreak read when it last ran
  fx,          \* history variable: what the last pass of effects did
  reloading,   \* location.reload() was called and the page is not yet unloaded
  fault,       \* "none", or where an uncaught error unmounted the component tree
  alt,         \* the hold controller of part_000 fed the same pointer and timer
               \* events: its refs and, as history, the fn() calls of the latest
               \* press and whether that press began with the button down
  sw           \* the service worker: its cache and the answer to the last fetch

vars == <<count, history, today, pending, stCount, stHistory, holdRef, timers,
          nextId, sess, op, pre, rolled, incToday, settings, stSettings,
          streak, memoDay, fx, reloading, fault, alt, sw>>

\* the state of the page outside the counter and its ledger
sysVars == <<settings, stSettings, reloading, fault, sw>>

Max(a, b) == IF a >= b THEN a ELSE b
Min(a, b) == IF a <= b THEN a ELSE b

\* ------------------------------------------------------------ persistence
\* A raw localStorage value is absent (getItem gives null) or a text, kept
\* as its sequence of characters.
Digits == <<"0", "1", "2", "3", "4", "5", "6", "7", "8", "9">>

RECURSIVE NatText(_)
NatText(n) ==
  IF n < 10 THEN <<Digits[n + 1]>>
  ELSE Append(NatText(n \div 10), Digits[(n % 10) + 1])

\* String(value) of an integer
NumberToString(n) == IF n < 0 THEN <<"-">> \o NatText(-n) ELSE NatText(n)

IsDigit(c) == \E i \in 1..10 : Digits[i] = c
DigitValue(c) == (CHOOSE i \in 1..10 : Digits[i] = c) - 1

RECURSIVE NatValue(_)
NatValue(s) ==
  IF s = <<>> THEN 0
  ELSE 10 * NatValue(SubSeq(s, 1, Len(s) - 1)) + DigitValue(s[Len(s)])

NaN == [nan |-> TRUE, v |-> 0]
Finite(v) == [nan |-> FALSE, v |-> v]

\* Number(text): an optional sign and decimal digits give the integer, the
\* empty text gives 0, any other text of the model gives NaN
Number(s) ==
  LET neg == s # <<>> /\ s[1] = "-"
      body == IF neg THEN Tail(s) ELSE s
  IN IF s = <<>> THEN Finite(0)
     ELSE IF body # <<>> /\ \A i \in 1..Len(body) : IsDigit(body[i])
     THEN Finite(IF neg THEN -NatValue(body) ELSE NatValue(body))
     ELSE NaN

RawNull == [t |-> "null", s |-> <<>>]
RawText == [t |-> "text", s |-> <<"a", "b", "c">>]
RawNum(n) == [t |-> "text", s |-> NumberToString(n)]

\* loadNumber(key, fallback): raw ? Number(raw) : fallback, kept when finite
loadNumber(raw, fallback) ==
  LET n == IF raw.t = "text" /\ raw.s # <<>> THEN Number(raw.s) ELSE Finite(fallback)
  IN IF ~n.nan THEN n.v ELSE fallback

\* saveNumber: String(value)
saveNumber(value) == RawNum(value)

EmptyHistory == [d \in {} |-> [date |-> d, total |-> 0]]

\* the JSON value null where a day's record is expected
NullLog == [date |-> -1, total |-> -1]

\* The stored history is absent, text JSON.parse rejects, the JSON text
\* "null", or the JSON text of an object whose members are records or null.
RawHNull == [t |-> "null", h |-> EmptyHistory]
RawHText == [t |-> "text", h |-> EmptyHistory]
RawHJsonNull == [t |-> "jsonnull", h |-> EmptyHistory]
RawHObj(h) == [t |-> "json", h |-> h]

\* loadHistory with its test of the parsed value the wrong way round
loadHistoryInverted(raw) ==
  IF raw.t = "json" THEN EmptyHistory ELSE raw.h

\* loadHistory: missing -> {}, JSON.parse throws -> {}, null || {} -> {},
\* else the parsed object
loadHistory(raw) ==
  IF raw.t = "json" THEN raw.h ELSE EmptyHistory

\* saveHistory: JSON.stringify(h)
saveHistory(h) == RawHObj(h)

\* ---------------------------------------------------------------- settings
Fields == {"vibrate", "vibrateMs", "autoResetAfterLog", "hapticsOnDecrement"}

defaultSettings ==
  [vibrate |-> TRUE, vibrateMs |-> 10, autoResetAfterLog |-> TRUE,
   hapticsOnDecrement |-> FALSE]

\* The stored settings are absent, text JSON.parse rejects, or the JSON text
\* of an object that has the members `has`, with the values they have in `s`.
RawSNull == [t |-> "null", s |-> defaultSettings, has |-> {}]
RawSText == [t |-> "text", s |-> defaultSettings, has |-> {}]
RawSObj(s, has) == [t |-> "json", s |-> s, has |-> has]

\* loadSettings that spreads the defaults last: { ...JSON.parse(raw), ...defaultSettings }
loadSettingsDefaultsWin(raw) == defaultSettings

\* loadSettings: raw ? { ...defaultSettings, ...JSON.parse(raw) } : defaultSettings,
\* and defaultSettings when JSON.parse throws
loadSettings(raw) ==
  IF raw.t = "json"
  THEN [vibrate |-> IF "vibrate" \in raw.has
                    THEN raw.s.vibrate ELSE defaultSettings.vibrate,
        vibrateMs |-> IF "vibrateMs" \in raw.has
                      THEN raw.s.vibrateMs ELSE defaultSettings.vibrateMs,
        autoResetAfterLog |-> IF "autoResetAfterLog" \in raw.has
                              THEN raw.s.autoResetAfterLog
                              ELSE defaultSettings.autoResetAfterLog,
        hapticsOnDecrement |-> IF "hapticsOnDecrement" \in raw.has
                               THEN raw.s.hapticsOnDecrement
                               ELSE defaultSettings.hapticsOnDecrement]
  ELSE defaultSettings

\* saveSettings: JSON.stringify(s) of a settings object writes its four members
saveSettings(s) == RawSObj(s, Fields)

\* ------------------------------------------------------------------ ledger
todayKey == today

Has(h, key) == key \in DOMAIN h

\* { ...h, [key]: { date: key, total } }
Put(h, key, total) ==
  [d \in DOMAIN h \cup {key} |->
     IF d = key THEN [date |-> key, total |-> total] ELSE h[d]]

\* const { [key]: _, ...rest } = history
Rest(h, key) == [d \in DOMAIN h \ {key} |-> h[d]]

\* ------------------------------------------------------------------ streak
\* the while loop of calcStreak: count the dates of `set` from cursor backward
RECURSIVE streakFrom(_, _)
streakFrom(set, cursor) ==
  IF cursor \in set THEN 1 + streakFrom(set, cursor - 1) ELSE 0

\* calcStreak that starts at today even when today has no positive total
calcStreakFromToday(h, td) ==
  LET dates == DOMAIN h
      set == {d \in dates : h[d].total > 0}
  IN IF dates = {} THEN 0 ELSE streakFrom(set, td)

\* calcStreak() on the history h when todayKey() is the date td
calcStreak(h, td) ==
  LET dates == DOMAIN h
      set == {d \in dates : h[d].total > 0}
      todayHas == td \in set
      cursor == IF todayHas THEN td ELSE td - 1
  IN IF dates = {} THEN 0 ELSE streakFrom(set, cursor)

\* calcStreak reads history[d].total of every key: a null member throws
calcStreakThrows(h) == \E d \in DOMAIN h : h[d] = NullLog

\* ------------------------------------------------------------ history view
\* Array.from({ length: 14 })
ViewLength == 14

\* history[key]?.total ?? 0
totalOf(h, key) ==
  IF Has(h, key) /\ h[key] # NullLog THEN h[key].total ELSE 0

\* a history list whose first row is yesterday
historyViewFromYesterday(h, td) ==
  [i \in 1..ViewLength |-> [date |-> td - i, total |-> totalOf(h, td - i)]]

\* the rows of the history panel, top to bottom, rendered from the history h
\* when new Date() is the date td: row i (from 0) is d.setDate(d.getDate() - i)
historyView(h, td) ==
  [i \in 1..ViewLength |->
     LET key == td - (i - 1)
     IN [date |-> key, total |-> totalOf(h, key)]]

\* useMemo(() => calcStreak(), [history]): the render of a commit that
\* replaced the history object runs calcStreak again
Memo(replaced) ==
  IF replaced
  THEN streak' = calcStreak(history', today) /\ memoDay' = today
  ELSE UNCHANGED <<streak, memoDay>>

memoVars == <<streak, memoDay>>

\* ------------------------------------------------------------ counter core
\* the updater of increment(step = 1): c => Math.max(0, c + step)
increment(c) == Max(0, c + 1)

\* the updater of decrement(step = 1): c => Math.max(0, c - step)
decrement(c) == Max(0, c - 1)

\* the tick action handed to startHold / stopHold for a button
fn(b, c) == IF b = "inc" THEN increment(c) ELSE decrement(c)

\* dependencies that miss a replaced history
DepsCountOnly(newCount, historyReplaced) ==
  IF newCount # count THEN {"count"} ELSE {}

\* a commit re-runs the effects that depend on `count` only when the value
\* differs (Object.is); every setHistory of the code builds a new object
Deps(newCount, historyReplaced) ==
  (IF newCount # count THEN {"count"} ELSE {})
    \cup (IF historyReplaced THEN {"history"} ELSE {})

\* the first commit runs every effect
MountDeps == {"count", "history", "settings"}

\* ----------------------------------------------------------------- effects
\* the updater of the count-to-history effect: h => ... (lines 206-210)
upsertToday(h, c) ==
  LET prev == IF Has(h, todayKey) THEN h[todayKey].total ELSE -1
  IN IF prev = c THEN h ELSE Put(h, todayKey, c)

\* an updater that builds a new object whatever the total
upsertAlwaysReplaces(h, c) == TRUE

\* the updater returns h itself when prev === count, a new object otherwise
upsertReplaces(h, c) ==
  LET prev == IF Has(h, todayKey) THEN h[todayKey].total ELSE -1
  IN prev # c

\* checkDayChange's test `!history[key]` on the history its closure holds
noRecordToday(h) == ~Has(h, todayKey)

\* the updater of checkDayChange: h => ({ ...h, [key]: { date: key, total: 0 } })
seedToday(h) == Put(h, todayKey, 0)

NoFx == [upsert |-> "none", seed |-> FALSE]

\* useEffect callbacks of the last commit, in declaration order:
\*   saveNumber [count]; saveHistory [history]; saveSettings [settings];
\*   count-to-history [count];
\*   checkDayChange, called once when its effect is set up [history].
\* The queued updaters are applied in order by the commit that follows.
RunEffects ==
  /\ pending # {}
  /\ fault = "none"
  /\ LET onCount == "count" \in pending
         onHistory == "history" \in pending
         onSettings == "settings" \in pending
         upsert == onCount /\ ~(count < 0)
         h1 == IF upsert THEN upsertToday(history, count) ELSE history
         replaced == upsert /\ upsertReplaces(history, count)
         seed == onHistory /\ noRecordToday(history)
         h2 == IF seed THEN seedToday(h1) ELSE h1
         c2 == IF seed THEN 0 ELSE count
     IN /\ stCount' = IF onCount THEN saveNumber(count) ELSE stCount
        /\ stHistory' = IF onHistory THEN saveHistory(history) ELSE stHistory
        /\ stSettings' = IF onSettings THEN saveSettings(settings) ELSE stSettings
        /\ count' = c2
        /\ history' = h2
        /\ pending' = Deps(c2, replaced \/ seed)
        /\ Memo(replaced \/ seed)
        /\ fx' = [upsert |-> IF ~upsert THEN "none"
                             ELSE IF replaced THEN "put" ELSE "same",
                  seed |-> seed]
  /\ UNCHANGED <<today, holdRef, timers, nextId, sess, alt, op, pre, rolled, incToday,
                 settings, reloading, fault, sw>>

\* A save of the pass throws: localStorage.setItem is called with no
\* try/catch inside a useEffect callback, and the tree has no error boundary,
\* so React unmounts the component tree.
EffectThrows ==
  /\ pending # {}
  /\ fault = "none"
  /\ fault' = "effect"
  /\ UNCHANGED <<count, history, today, pending, stCount, stHistory, holdRef,
                 timers, nextId, sess, alt, op, pre, rolled, incToday, settings,
                 stSettings, streak, memoDay, fx, reloading, sw>>

\* ------------------------------------------------------------------ events
\* an event is delivered when the effects of the previous commit have run
Snapshot ==
  [count |-> count, history |-> history, today |-> today, settings |-> settings,
   reloading |-> reloading, settled |-> pending = {}]

Deliver(name, b) ==
  /\ pending = {}
  /\ fault = "none"
  /\ op' = [name |-> name, btn |-> b]
  /\ pre' = Snapshot
  /\ fx' = NoFx

\* ticks are accepted while the counter is below the bound of the model
CanTick(b) == b = "inc" => count < MaxCount

\* n calls of the tick action of button b (n is 0 or 1): setCount(updater)
Call(b, n) ==
  /\ count' = IF n = 1 THEN fn(b, count) ELSE count
  /\ incToday' = IF n = 1 /\ b = "inc" THEN Min(incToday + 1, MaxCount) ELSE incToday
  /\ pending' = Deps(count', FALSE)

Timer(id, kind, b, cur) == [id |-> id, kind |-> kind, btn |-> b, cur |-> cur]

NoPress == [st |-> "none", fired |-> FALSE, ticks |-> 0, reps |-> 0]

NoHandles == [delay |-> Null, repeat |-> Null]

\* startHold without its immediate fn(): the press arms the delay and ticks nothing
startHoldDeferred(b) ==
  /\ Call(b, 0)
  /\ holdRef' = [holdRef EXCEPT ![b].delay = nextId]
  /\ timers' = {IF t.btn = b THEN [t EXCEPT !.cur = FALSE] ELSE t : t \in timers}
                 \cup {Timer(nextId, "delay", b, TRUE)}
  /\ nextId' = nextId + 1
  /\ sess' = [sess EXCEPT ![b] = [st |-> "down", fired |-> FALSE, ticks |-> 0, reps |-> 0]]

\* startHold(ref, fn): fn(), then ref.current.delay = setTimeout(..., 300)
startHold(b) ==
  /\ Call(b, 1)
  /\ holdRef' = [holdRef EXCEPT ![b].delay = nextId]
  /\ timers' = {IF t.btn = b THEN [t EXCEPT !.cur = FALSE] ELSE t : t \in timers}
                 \cup {Timer(nextId, "delay", b, TRUE)}
  /\ nextId' = nextId + 1
  /\ sess' = [sess EXCEPT ![b] = [st |-> "down", fired |-> FALSE, ticks |-> 1, reps |-> 0]]

\* ---- the hold controller of part_000 (first tick deferred to the delay)
\* Both controllers call setTimeout, setInterval, clearTimeout and
\* clearInterval at the same events, so the timers of the page serve both.
NoHold == [delay |-> Null, repeat |-> Null, ticks |-> 0, overlap |-> FALSE]

\* part_000 startHold(ref, fn): ref.current.delay = setTimeout(..., 300); no fn()
startHold_000(b) ==
  alt' = [alt EXCEPT ![b] = [delay |-> nextId, repeat |-> @.repeat, ticks |-> 0,
                             overlap |-> sess[b].st = "down"]]

\* the setTimeout callback of part_000: fn(); ref.current.repeat = setInterval(fn, 150)
delayCallback_000(t) ==
  alt' = [alt EXCEPT ![t.btn].repeat = nextId,
                     ![t.btn].ticks = IF t.cur THEN @ + 1 ELSE @]

\* the setInterval callback of part_000: fn()
repeatCallback_000(t) ==
  alt' = [alt EXCEPT ![t.btn].ticks = IF t.cur THEN @ + 1 ELSE @]

\* a part_000 stopHold that calls fn() on every release
stopHoldAlwaysTaps_000(b) ==
  alt' = [alt EXCEPT ![b] = [delay |-> Null, repeat |-> Null, ticks |-> @.ticks + 1,
                             overlap |-> @.overlap]]

\* part_000 stopHold(ref, fn): fn() when hadDelay && !hadRepeat; then both
\* timers are cleared and both handles set to null
stopHold_000(b) ==
  LET hadDelay == alt[b].delay # Null
      hadRepeat == alt[b].repeat # Null
      tap == hadDelay /\ ~hadRepeat
  IN alt' = [alt EXCEPT ![b] = [delay |-> Null, repeat |-> Null,
                                ticks |-> IF tap THEN @.ticks + 1 ELSE @.ticks,
                                overlap |-> @.overlap]]

\* onPointerDown of the + and - buttons
PressStart(b) ==
  /\ Deliver("pressStart", b)
  /\ CanTick(b)
  /\ nextId <= MaxTimerId
  /\ startHold(b)
  /\ startHold_000(b)
  /\ UNCHANGED <<history, today, stCount, stHistory, rolled, sysVars, memoVars>>

\* the delay callback calling fn() before it starts the interval
delayCallbackTicks(t) ==
  /\ Call(t.btn, 1)
  /\ holdRef' = [holdRef EXCEPT ![t.btn].repeat = nextId]
  /\ timers' = (timers \ {t}) \cup {Timer(nextId, "repeat", t.btn, t.cur)}
  /\ nextId' = nextId + 1
  /\ sess' = IF t.cur
             THEN [sess EXCEPT ![t.btn].fired = TRUE, ![t.btn].ticks = @ + 1]
             ELSE sess

\* the setTimeout callback of startHold: ref.current.repeat = setInterval(fn, 150)
delayCallback(t) ==
  /\ Call(t.btn, 0)
  /\ holdRef' = [holdRef EXCEPT ![t.btn].repeat = nextId]
  /\ timers' = (timers \ {t}) \cup {Timer(nextId, "repeat", t.btn, t.cur)}
  /\ nextId' = nextId + 1
  /\ sess' = IF t.cur THEN [sess EXCEPT ![t.btn].fired = TRUE] ELSE sess

\* a delay timer fires after 300 ms: delay timers fire in the order they were set
DelayFire(t) ==
  /\ Deliver("delayFire", t.btn)
  /\ t.kind = "delay"
  /\ \A u \in timers : u.kind = "delay" => t.id <= u.id
  /\ nextId <= MaxTimerId
  /\ delayCallback(t)
  /\ delayCallback_000(t)
  /\ UNCHANGED <<history, today, stCount, stHistory, rolled, sysVars, memoVars>>

\* a repeat timer fires every 150 ms: fn()
RepeatFire(t) ==
  /\ Deliver("repeatFire", t.btn)
  /\ t.kind = "repeat"
  /\ CanTick(t.btn)
  /\ t.cur => sess[t.btn].ticks < MaxTicks
  /\ Call(t.btn, 1)
  /\ sess' = IF t.cur
             THEN [sess EXCEPT ![t.btn].ticks = @ + 1, ![t.btn].reps = @ + 1]
             ELSE sess
  /\ repeatCallback_000(t)
  /\ UNCHANGED <<history, today, stCount, stHistory, holdRef, timers, nextId, rolled,
                 sysVars, memoVars>>

\* stopHold that clears the delay timer and forgets the interval
stopHoldKeepsRepeat(b) ==
  LET d == holdRef[b].delay
      cleared == IF d # Null THEN {d} ELSE {}
  IN /\ timers' = {t \in timers : t.id \notin cleared}
     /\ holdRef' = [holdRef EXCEPT ![b].delay = Null]

\* stopHold on a ref the two buttons share: every handle is cleared
stopHoldShared(b) ==
  LET cleared == UNION {{holdRef[o].delay, holdRef[o].repeat} : o \in Buttons}
  IN /\ timers' = {t \in timers : t.id \notin cleared}
     /\ holdRef' = [o \in Buttons |-> NoHandles]

\* stopHold(ref, fn): clearTimeout(delay), clearInterval(repeat), both set to null
stopHold(b) ==
  LET d == holdRef[b].delay
      r == holdRef[b].repeat
      cleared == (IF d # Null THEN {d} ELSE {}) \cup (IF r # Null THEN {r} ELSE {})
  IN /\ timers' = {t \in timers : t.id \notin cleared}
     /\ holdRef' = [holdRef EXCEPT ![b] = NoHandles]

\* onPointerUp / onPointerLeave / onPointerCancel of the + and - buttons
Release(b) ==
  /\ Deliver("release", b)
  /\ stopHold(b)
  /\ stopHold_000(b)
  /\ Call(b, 0)
  /\ sess' = IF sess[b].st = "down" THEN [sess EXCEPT ![b].st = "up"] ELSE sess
  /\ UNCHANGED <<history, today, stCount, stHistory, nextId, rolled, sysVars, memoVars>>

\* a reset that leaves the count as it is
resetKeepsCount ==
  /\ count' = count
  /\ pending' = Deps(count, FALSE)
  /\ UNCHANGED history

\* reset(): setCount(0)
reset ==
  /\ count' = 0
  /\ pending' = Deps(0, FALSE)
  /\ UNCHANGED history

\* the keys and event targets a keydown is tried with
Keys == {"ArrowUp", "+", "ArrowDown", "-", "r", "R", "x"}
Targets == {"body", "button", "input"}

\* e.key.toLowerCase()
toLowerCase(key) == IF key = "R" THEN "r" ELSE key

\* onKey(e): ignored on a button, else increment(), decrement() or reset()
onKey(target, key) ==
  IF target = "button"
  THEN UNCHANGED <<count, history, pending, incToday>>
  ELSE IF key = "ArrowUp" \/ key = "+"
  THEN Call("inc", 1) /\ UNCHANGED history
  ELSE IF key = "ArrowDown" \/ key = "-"
  THEN Call("dec", 1) /\ UNCHANGED history
  ELSE IF toLowerCase(key) = "r"
  THEN reset /\ UNCHANGED incToday
  ELSE UNCHANGED <<count, history, pending, incToday>>

\* a keydown reaches the window listener
KeyDown(target, key) ==
  /\ Deliver("keydown", target)
  /\ (target # "button" /\ key \in {"ArrowUp", "+"}) => CanTick("inc")
  /\ onKey(target, key)
  /\ UNCHANGED <<today, stCount, stHistory, holdRef, timers, nextId, sess, alt, rolled,
                 sysVars, memoVars>>

\* onClick of the reset button
Reset ==
  /\ Deliver("reset", "")
  /\ reset
  /\ UNCHANGED <<today, stCount, stHistory, holdRef, timers, nextId, sess, alt, rolled,
                 incToday, sysVars, memoVars>>

\* a clearToday that drops every record of the history
clearTodayDropsAll ==
  IF ~Has(history, todayKey)
  THEN UNCHANGED <<count, history, pending, memoVars>>
  ELSE /\ history' = EmptyHistory
       /\ pending' = Deps(count, TRUE)
       /\ Memo(TRUE)
       /\ UNCHANGED count

\* clearToday(): if (!history[key]) return; setHistory(rest)
clearToday ==
  IF ~Has(history, todayKey)
  THEN UNCHANGED <<count, history, pending, memoVars>>
  ELSE /\ history' = Rest(history, todayKey)
       /\ pending' = Deps(count, TRUE)
       /\ Memo(TRUE)
       /\ UNCHANGED count

\* onClick of the clear-today button
ClearToday ==
  /\ Deliver("clearToday", "")
  /\ clearToday
  /\ UNCHANGED <<today, stCount, stHistory, holdRef, timers, nextId, sess, alt, rolled,
                 incToday, sysVars>>

\* checkDayChange that seeds the record and leaves the count alone
checkDayChangeKeepsCount ==
  IF noRecordToday(history)
  THEN /\ history' = seedToday(history)
       /\ pending' = Deps(count, TRUE)
       /\ Memo(TRUE)
       /\ UNCHANGED count
  ELSE UNCHANGED <<count, history, pending, memoVars>>

\* checkDayChange(): if (!history[key]) { setCount(0); setHistory(seed) }
\* With no effect pending, the history its closure holds is the current one.
checkDayChange ==
  IF noRecordToday(history)
  THEN /\ count' = 0
       /\ history' = seedToday(history)
       /\ pending' = Deps(0, TRUE)
       /\ Memo(TRUE)
  ELSE UNCHANGED <<count, history, pending, memoVars>>

\* the 60 s interval of the rollover effect fires
RolloverCheck ==
  /\ Deliver("checkDayChange", "")
  /\ checkDayChange
  /\ UNCHANGED <<today, stCount, stHistory, holdRef, timers, nextId, sess, alt, rolled,
                 incToday, sysVars>>

\* the values the Vibration ms input is set to
MsValues == {0, 10}

\* onChange of the Vibrate checkbox: setSettings(s => ({ ...s, vibrate: checked }))
SetVibrate(checked) ==
  /\ Deliver("setVibrate", "")
  /\ settings' = [settings EXCEPT !.vibrate = checked]
  /\ pending' = {"settings"}
  /\ UNCHANGED <<count, history, today, stCount, stHistory, holdRef, timers, nextId,
                 sess, alt, rolled, incToday, stSettings, reloading, fault, memoVars, sw>>

\* onChange of the Vibration ms input: vibrateMs: Number(e.target.value)
SetVibrateMs(value) ==
  /\ Deliver("setVibrateMs", "")
  /\ settings' = [settings EXCEPT !.vibrateMs = value]
  /\ pending' = {"settings"}
  /\ UNCHANGED <<count, history, today, stCount, stHistory, holdRef, timers, nextId,
                 sess, alt, rolled, incToday, stSettings, reloading, fault, memoVars, sw>>

\* onChange of the Haptic on - checkbox
SetHaptics(checked) ==
  /\ Deliver("setHaptics", "")
  /\ settings' = [settings EXCEPT !.hapticsOnDecrement = checked]
  /\ pending' = {"settings"}
  /\ UNCHANGED <<count, history, today, stCount, stHistory, holdRef, timers, nextId,
                 sess, alt, rolled, incToday, stSettings, reloading, fault, memoVars, sw>>

\* onClick of the reset-all button: localStorage.clear(); location.reload().
\* reload() starts a navigation; the page keeps running until it is unloaded.
FactoryReset ==
  /\ Deliver("factoryReset", "")
  /\ stCount' = RawNull
  /\ stHistory' = RawHNull
  /\ stSettings' = RawSNull
  /\ reloading' = TRUE
  /\ UNCHANGED <<count, history, today, pending, holdRef, timers, nextId, sess, alt,
                 rolled, incToday, settings, fault, memoVars, sw>>

\* The page is unloaded and loaded again (the reload reset-all asked for, or
\* the user opening the app anew): timers and refs of the old page are gone,
\* App() reads localStorage, and every effect runs after the first commit.
Restart ==
  /\ op' = [name |-> "restart", btn |-> ""]
  /\ pre' = Snapshot
  /\ count' = loadNumber(stCount, 0)
  /\ history' = loadHistory(stHistory)
  /\ settings' = loadSettings(stSettings)
  /\ fault' = IF calcStreakThrows(history') THEN "render" ELSE "none"
  /\ streak' = IF fault' # "none" THEN 0 ELSE calcStreak(history', today)
  /\ memoDay' = today
  /\ pending' = MountDeps
  /\ holdRef' = [b \in Buttons |-> NoHandles]
  /\ timers' = {}
  /\ nextId' = 1
  /\ sess' = [b \in Buttons |-> NoPress]
  /\ alt' = [b \in Buttons |-> NoHold]
  /\ rolled' = FALSE
  /\ incToday' = 0
  /\ fx' = NoFx
  /\ reloading' = FALSE
  /\ UNCHANGED <<today, stCount, stHistory, stSettings, sw>>

\* ---------------------------------------------------------- service worker
\* CORE_ASSETS, cached by the install handler
CoreAssets ==
  {"/", "/index.html", "/manifest.webmanifest", "/icons/icon-192.png",
   "/icons/icon-512.png"}

\* the other URLs requests are made for
OtherUrls == {"/assets/index.js", "/assets/index.css", "/tally"}

Urls == CoreAssets \cup OtherUrls

\* GET requests: a URL of this origin or of another, navigation or not
Requests == [url : Urls, origin : {"self", "other"}, mode : {"navigate", "no-cors"}]

NoRequest == [url |-> "", origin |-> "", mode |-> ""]

Answer(req, from, url, net) == [req |-> req, from |-> from, url |-> url, net |-> net]

\* the worker once installed: CORE_ASSETS are cached, nothing was fetched
InstalledWorker ==
  [cache |-> CoreAssets, putting |-> {}, online |-> TRUE,
   last |-> Answer(NoRequest, "none", "", FALSE)]

pageVars == <<count, history, today, pending, stCount, stHistory, holdRef, timers,
              nextId, sess, op, pre, rolled, incToday, settings, stSettings,
              streak, memoDay, fx, reloading, fault, alt>>

\* the catch handler answering every request with the cached root document
offlineFallbackForAll(req) ==
  IF "/index.html" \in sw.cache
  THEN Answer(req, "cache", "/index.html", TRUE)
  ELSE Answer(req, "error", "", TRUE)

\* the catch handler of fetch(req): caches.match('/index.html') for a
\* navigation, undefined otherwise (respondWith then fails the request)
offlineFallback(req) ==
  IF req.mode = "navigate" /\ "/index.html" \in sw.cache
  THEN Answer(req, "cache", "/index.html", TRUE)
  ELSE Answer(req, "error", "", TRUE)

\* the fetch listener: a request of another origin is left to the browser;
\* else the cached response, else fetch(req), whose response is answered
\* while cache.put(req, resClone) runs on
fetchListener(req) ==
  IF req.origin # "self"
  THEN sw' = [sw EXCEPT !.last = Answer(req, "passthrough", "", FALSE)]
  ELSE IF req.url \in sw.cache
  THEN sw' = [sw EXCEPT !.last = Answer(req, "cache", req.url, FALSE)]
  ELSE IF sw.online
  THEN sw' = [sw EXCEPT !.last = Answer(req, "network", req.url, TRUE),
                        !.putting = @ \cup {req.url}]
  ELSE sw' = [sw EXCEPT !.last = offlineFallback(req)]

\* the page or the browser requests a URL
FetchEvent(req) ==
  /\ fetchListener(req)
  /\ UNCHANGED pageVars

\* cache.put(req, resClone) completes
CachePut(url) ==
  /\ url \in sw.putting
  /\ sw' = [sw EXCEPT !.cache = @ \cup {url}, !.putting = @ \ {url}]
  /\ UNCHANGED pageVars

\* the network goes away or comes back
NetworkChange ==
  /\ sw' = [sw EXCEPT !.online = ~@]
  /\ UNCHANGED pageVars

\* midnight passes: new Date() yields the next calendar date
AdvanceDay ==
  /\ today < MaxDay
  /\ today' = today + 1
  /\ rolled' = TRUE
  /\ incToday' = 0
  /\ UNCHANGED <<count, history, pending, stCount, stHistory, holdRef, timers,
                 nextId, sess, alt, op, pre, sysVars, memoVars, fx>>

\* ------------------------------------------------------------ specification
\* ledgers with a well-formed record for some of the days in D
Histories(D) ==
  UNION {{[d \in S |-> [date |-> d, total |-> f[d]]] : f \in [S -> Totals]} : S \in SUBSET D}

\* App(): the lazy useState initialisers read localStorage; the first render
\* runs calcStreak; every effect runs after the first commit
App ==
  /\ count = loadNumber(stCount, 0)
  /\ history = loadHistory(stHistory)
  /\ settings = loadSettings(stSettings)
  /\ fault = IF calcStreakThrows(history) THEN "render" ELSE "none"
  /\ streak = IF fault # "none" THEN 0 ELSE calcStreak(history, today)
  /\ memoDay = today
  /\ pending = MountDeps
  /\ holdRef = [b \in Buttons |-> NoHandles]
  /\ timers = {}
  /\ nextId = 1
  /\ sess = [b \in Buttons |-> NoPress]
  /\ alt = [b \in Buttons |-> NoHold]
  /\ reloading = FALSE
  /\ op = [name |-> "mount", btn |-> ""]
  /\ pre = Snapshot
  /\ rolled = FALSE
  /\ incToday = 0
  /\ fx = NoFx

\* the app opens on stored values of every kind for the count and on any
\* well-formed stored history; no settings are stored
Init ==
  /\ today \in 0..(MaxDay - 1)
  /\ stCount \in {RawNull, RawText} \cup {RawNum(n) : n \in (-1)..MaxCount}
  /\ stHistory \in {RawHNull, RawHText} \cup {RawHObj(h) : h \in Histories(0..today)}
  /\ stSettings = RawSNull
  /\ sw = InstalledWorker
  /\ App

\* The counter core: keyboard ticks, reset, clear-today, the rollover check and
\* the calendar.  A tick of the hold controller is the same setCount update as a
\* key's, so these behaviours cover every order of ticks on count and history.
Next ==
  \/ RunEffects
  \/ \E target \in Targets, key \in Keys : KeyDown(target, key)
  \/ Reset
  \/ ClearToday
  \/ RolloverCheck
  \/ AdvanceDay

Spec == Init /\ [][Next]_vars

\* The hold controller: pointer events on the two buttons and their timers,
\* started on a fresh day with a well-formed stored count.
InitHold ==
  /\ Init
  /\ today = 0
  /\ stCount \in {RawNum(n) : n \in Totals}
  /\ stHistory = RawHNull

NextHold ==
  \/ RunEffects
  \/ \E b \in Buttons : PressStart(b)
  \/ \E t \in timers : DelayFire(t)
  \/ \E t \in timers : RepeatFire(t)
  \/ \E b \in Buttons : Release(b)

SpecHold == InitHold /\ [][NextHold]_vars

\* settings with every member away from its default
flippedSettings ==
  [vibrate |-> FALSE, vibrateMs |-> 0, autoResetAfterLog |-> FALSE,
   hapticsOnDecrement |-> TRUE]

\* a stored history whose record of day d is the JSON value null
NullAt(d) == [e \in {d} |-> NullLog]

\* stored ledgers whose totals are the least and the greatest of the model
StoredHistories(D) ==
  {h \in Histories(D) : \A d \in DOMAIN h : h[d].total \in {0, MaxCount}}

\* Persistence: the app opens on stored values of every kind for the three
\* keys; settings are changed, reset-all is clicked, a save throws, and the
\* page is loaded again.
InitStore ==
  /\ today \in 0..(MaxDay - 1)
  /\ stCount \in {RawNull, RawText} \cup {RawNum(n) : n \in (-1)..MaxCount}
  /\ stHistory \in {RawHNull, RawHText, RawHJsonNull, RawHObj(NullAt(today))}
                     \cup {RawHObj(h) : h \in StoredHistories(0..today)}
  /\ stSettings \in {RawSNull, RawSText}
                      \cup {RawSObj(flippedSettings, has) : has \in SUBSET Fields}
  /\ sw = InstalledWorker
  /\ App

NextStore ==
  \/ RunEffects
  \/ EffectThrows
  \/ \E key \in Keys : KeyDown("body", key)
  \/ ClearToday
  \/ \E checked \in BOOLEAN : SetVibrate(checked)
  \/ \E value \in MsValues : SetVibrateMs(value)
  \/ \E checked \in BOOLEAN : SetHaptics(checked)
  \/ FactoryReset
  \/ Restart

SpecStore == InitStore /\ [][NextStore]_vars

\* The service worker: requests of both origins and modes reach the fetch
\* listener while the network comes and goes; the page is left as it opened.
InitWorker ==
  /\ Init
  /\ today = 0
  /\ stCount = RawNull
  /\ stHistory = RawHNull

NextWorker ==
  \/ \E req \in Requests : FetchEvent(req)
  \/ \E url \in Urls : CachePut(url)
  \/ NetworkChange

SpecWorker == InitWorker /\ [][NextWorker]_vars

TypeOK ==
  /\ count \in (-1)..MaxCount
  /\ today \in Days
  /\ pending \subseteq MountDeps
  /\ DOMAIN history \subseteq Days
  /\ \A d \in DOMAIN history :
       history[d] = NullLog \/ (history[d].date = d /\ history[d].total \in Totals)
  /\ settings.vibrateMs \in MsValues
  /\ streak \in 0..(MaxDay + 1)

\* ------------------------------------------------------------------ claims
\* timers of the latest press of button b that are still live
LiveOfPress(b) == {t \in timers : t.btn = b /\ t.cur}

\* C1: in every reachable state the live Tally is a non-negative integer,
\* whatever tally was loaded from storage.
C1_TallyNonNegative == count >= 0

\* C2: once the date has advanced while the app runs, the Ledger record of the
\* new day holds no tick counted before the date change: whatever events the
\* new day has delivered, its total is at most the number of increment ticks
\* made since the change.
C2_NoCarryOver ==
  (rolled /\ pre.today = today /\ today \in DOMAIN history) =>
    history[today].total <= incToday

\* C3: a press released before its delay timer fired has ticked exactly once,
\* and no timer of that press is live afterwards.
C3_TapOneTick ==
  \A b \in Buttons :
    (sess[b].st = "up" /\ ~sess[b].fired) =>
      (sess[b].ticks = 1 /\ LiveOfPress(b) = {})

C3_Witness ==
  \E b \in Buttons :
    op = [name |-> "release", btn |-> b] /\ sess[b].st = "up" /\ ~sess[b].fired

\* C4: a press whose delay timer fired has ticked once at press-start, not at
\* the delay, and once per repeat firing; after its release no timer of that
\* press is live, so it ticks no more.
C4_HoldTicks ==
  \A b \in Buttons :
    sess[b].fired =>
      /\ sess[b].ticks = 1 + sess[b].reps
      /\ sess[b].st = "up" => LiveOfPress(b) = {}

C4_Witness ==
  \E b \in Buttons :
    op = [name |-> "release", btn |-> b] /\ sess[b].st = "up"
      /\ sess[b].fired /\ sess[b].reps >= 2

\* C5: at most one armed session exists per button: a button never has more
\* than one live timer.
C5_OneArmedSession ==
  \A b \in Buttons : Cardinality({t \in timers : t.btn = b}) <= 1

C7_RolloverCheck ==
  [][RolloverCheck =>
       IF today \in DOMAIN history
       THEN count' = count /\ history' = history
       ELSE /\ count' = 0
            /\ DOMAIN history' = DOMAIN history \cup {today}
            /\ history'[today] = [date |-> today, total |-> 0]
            /\ \A d \in DOMAIN history : history'[d] = history[d]]_vars

C7_Witness ==
  /\ op.name = "checkDayChange"
  /\ today \notin DOMAIN pre.history
  /\ pre.count > 0
  /\ count = 0
  /\ today \in DOMAIN history

\* C8: once clearToday() and the effects it triggers have run, the live Tally
\* is what it was before.
C8_ClearTodayKeepsTally ==
  (op.name = "clearToday" /\ pending = {} /\ pre.count >= 0) => count = pre.count

\* C9: once clearToday() and the effects it triggers have run, the Ledger
\* holds no record for today.
C9_ClearTodayRemoves ==
  (op.name = "clearToday" /\ pending = {} /\ today = pre.today /\ pre.count >= 0) =>
    today \notin DOMAIN history

\* C10: after increment, decrement, reset or clearToday has returned, a
\* Ledger record for today has the live Tally as its total.
C10_TallyLedgerConsistent ==
  (op.name \in {"keydown", "reset", "clearToday"} /\ today \in DOMAIN history) =>
    history[today].total = count

\* a date has a positive total in the ledger h
Qualifies(h, d) == d \in DOMAIN h /\ h[d].total > 0

\* the number of consecutive qualifying dates counted backward from today
\* when today qualifies, from yesterday when it does not
StreakOf(h, td) ==
  LET start == IF Qualifies(h, td) THEN td ELSE td - 1
  IN Cardinality({k \in 0..td : \A j \in 0..k : Qualifies(h, start - j)})

\* the ledger with the totals of a sequence of <<day, total>> pairs
RECURSIVE LedgerOf(_)
LedgerOf(pairs) ==
  IF pairs = <<>> THEN EmptyHistory
  ELSE Put(LedgerOf(Tail(pairs)), Head(pairs)[1], Head(pairs)[2])

\* the five examples, with today the day 2
StreakExamples ==
  /\ calcStreak(EmptyHistory, 2) = 0
  /\ calcStreak(LedgerOf(<< <<2, 5>> >>), 2) = 1
  /\ calcStreak(LedgerOf(<< <<2, 0>>, <<1, 3>> >>), 2) = 1
  /\ calcStreak(LedgerOf(<< <<1, 2>>, <<0, 1>> >>), 2) = 2
  /\ calcStreak(LedgerOf(<< <<2, 4>>, <<1, 0>>, <<0, 7>> >>), 2) = 1

\* C11: the streak calcStreak returned for the current Ledger is the number
\* of consecutive dates with total > 0 counted backward from the date it read
\* as today when that date's total is > 0, from the day before when it is 0
\* or absent, stopping at the first date whose total is 0 or absent; the five
\* examples of the claim evaluate to 0, 1, 1, 2 and 1.
C11_Streak ==
  /\ streak = StreakOf(history, memoDay)
  /\ StreakExamples

C11_Witness ==
  /\ memoDay = today
  /\ today \in DOMAIN history
  /\ history[today].total = 0
  /\ streak = 2

\* C12: a pass of effects that upserts today's record with the total it
\* already has leaves the Ledger as it is and marks no history write to be
\* made; with a different total the record of today becomes {date, total},
\* the other records stay, and a history write is marked.
C12_UpsertIdempotent ==
  [][(RunEffects /\ "count" \in pending /\ count >= 0) =>
       IF Has(history, today) /\ history[today].total = count
       THEN history' = history /\ "history" \notin pending'
       ELSE \/ "history" \in pending /\ noRecordToday(history)
            \/ /\ DOMAIN history' = DOMAIN history \cup {today}
               /\ history'[today] = [date |-> today, total |-> count]
               /\ \A d \in DOMAIN history \ {today} : history'[d] = history[d]
               /\ "history" \in pending']_vars

C12_Witness ==
  /\ fx.upsert = "same"
  /\ Has(history, today)
  /\ history[today].total = count
  /\ pending = {}

\* C13 as claimed: once reset() and its effects have run, Tally is 0 and the
\* Ledger record for today exists with total 0.
C13_ResetRecordExists ==
  (op.name = "reset" /\ pending = {} /\ today = pre.today) =>
    (count = 0 /\ Has(history, today) /\ history[today].total = 0)

\* C13: once reset() and its effects have run, with the date unchanged,
\* Tally is 0 and no Ledger record was deleted; today's record has total 0
\* when it existed before the reset or the Tally was not already 0.
C13_ResetKeepsRecord ==
  (op.name = "reset" /\ pending = {} /\ today = pre.today) =>
    /\ count = 0
    /\ \A d \in DOMAIN pre.history : d \in DOMAIN history
    /\ (Has(pre.history, today) \/ pre.count # 0) =>
         (Has(history, today) /\ history[today].total = 0)

C13_Witness ==
  /\ op.name = "reset"
  /\ pending = {}
  /\ today = pre.today
  /\ pre.count > 0
  /\ Has(pre.history, today)
  /\ pre.history[today].total > 0
  /\ history[today].total = 0

\* C14: when the page has been loaded again after reset-all, Tally is 0, the
\* Ledger is empty and Settings are the built-in defaults, whatever the state
\* before, and no timer of the page before is live.
C14_FactoryReset ==
  (op.name = "restart" /\ pre.reloading /\ pending = MountDeps) =>
    /\ count = 0
    /\ history = EmptyHistory
    /\ settings = defaultSettings
    /\ timers = {}

\* C15: once the pending effects have run, with no save failed and no
\* reset-all under way, the persisted tally, ledger and settings are the
\* texts of the in-memory ones.
C15_PersistsFinalValue ==
  (pending = {} /\ ~reloading /\ fault = "none") =>
    /\ stCount = saveNumber(count)
    /\ stHistory = saveHistory(history)
    /\ stSettings = saveSettings(settings)

C15_Witness ==
  /\ pending = {}
  /\ ~reloading
  /\ op.name = "setVibrate"
  /\ pre.settings.vibrate
  /\ ~settings.vibrate
  /\ count > 0
  /\ Has(history, today)
  /\ history[today].total = count

\* C16: a storage write that throws is absorbed: no unhandled fault ends the
\* session.
C16_WriteFailureAbsorbed == fault # "effect"

\* the stored count is a missing or corrupt record: no text, or no number
CorruptCount(raw) == raw.t = "null" \/ raw.s = <<>> \/ Number(raw.s).nan

\* the stored history is a missing or corrupt record
CorruptHistory(raw) == raw.t # "json" \/ \E d \in DOMAIN raw.h : raw.h[d] = NullLog

\* the state App() builds from localStorage, before any effect has run
JustLoaded == op.name \in {"mount", "restart"} /\ pending = MountDeps

\* C17: loading a missing or corrupt persisted record never fails startup,
\* and yields the default of that record: tally 0, ledger {}, settings the
\* built-in defaults.
C17_LoadDefaults ==
  JustLoaded =>
    /\ fault # "render"
    /\ CorruptCount(stCount) => count = 0
    /\ CorruptHistory(stHistory) => history = EmptyHistory
    /\ stSettings.t # "json" => settings = defaultSettings

C19_SettingsMerge ==
  (JustLoaded /\ stSettings.t = "json") =>
    \A f \in Fields :
      settings[f] = IF f \in stSettings.has THEN stSettings.s[f] ELSE defaultSettings[f]

C19_Witness ==
  /\ JustLoaded
  /\ stSettings.t = "json"
  /\ stSettings.has = {"vibrate", "hapticsOnDecrement"}
  /\ ~settings.vibrate
  /\ settings.hapticsOnDecrement
  /\ settings.vibrateMs = defaultSettings.vibrateMs
  /\ settings.autoResetAfterLog

\* C20: a keydown of a shortcut whose target is a button or a form input
\* changes neither Tally nor Ledger.
C20_ShortcutIgnoredOnControls ==
  (op.name = "keydown" /\ op.btn \in {"button", "input"}) =>
    (count = pre.count /\ history = pre.history)

\* both controllers hold the same timer handles
SameHandles ==
  \A b \in Buttons :
    alt[b].delay = holdRef[b].delay /\ alt[b].repeat = holdRef[b].repeat

\* C21: a release of a button whose timer handles are both null (no press
\* before it, or a release already handled) calls fn() in neither controller,
\* changes no timer handle and no timer, and raises no fault.
C21_ReleaseUnarmedNoOp ==
  [][\A b \in Buttons :
       (Release(b) /\ holdRef[b] = NoHandles
          /\ alt[b].delay = Null /\ alt[b].repeat = Null) =>
         /\ count' = count
         /\ holdRef' = holdRef
         /\ timers' = timers
         /\ alt'[b].ticks = alt[b].ticks
         /\ alt'[b].delay = Null /\ alt'[b].repeat = Null
         /\ fault' = fault]_vars

C21_Witness ==
  /\ op.name = "release"
  /\ sess[op.btn].st = "none"
  /\ holdRef[op.btn] = NoHandles
  /\ count = pre.count

\* C23: whenever a button has been released and not pressed again, no delay
\* or repeat timer of that button is live.
C23_ReleasedNeverTicks ==
  \A b \in Buttons :
    sess[b].st = "up" => {t \in timers : t.btn = b} = {}

\* the timers of button b
TimersOf(b, ts) == {t \in ts : t.btn = b}

\* C25: a press, a release or a timer firing of one button leaves the timer
\* handles and the timers of the other button as they are.
C25_ButtonsIndependent ==
  [][\A b \in Buttons : \A o \in Buttons \ {b} :
       (\/ PressStart(b)
        \/ Release(b)
        \/ \E t \in TimersOf(b, timers) : DelayFire(t) \/ RepeatFire(t)) =>
         /\ holdRef'[o] = holdRef[o]
         /\ TimersOf(o, timers') = TimersOf(o, timers)]_vars

C25_Witness ==
  /\ op = [name |-> "release", btn |-> "inc"]
  /\ sess["inc"].st = "up"
  /\ sess["inc"].fired
  /\ sess["dec"].st = "down"
  /\ \E t \in timers :
       t.btn = "dec" /\ t.kind = "repeat" /\ t.cur /\ holdRef["dec"].repeat = t.id

\* C26: for a press that began with the button up, the two controllers have
\* called fn() equally often once the press is released; while it is held
\* the immediate-tick controller is one call ahead until the delay timer
\* fires, and level after that.
C26_VariantsSameTicks ==
  \A b \in Buttons :
    ~alt[b].overlap =>
      /\ sess[b].st = "up" => alt[b].ticks = sess[b].ticks
      /\ sess[b].st = "down" =>
           sess[b].ticks = alt[b].ticks + (IF sess[b].fired THEN 0 ELSE 1)

\* C22: the history panel rendered from the current Ledger on the current
\* date has 14 rows; their dates are exactly today, today-1, ..., today-13,
\* strictly descending (so each once); a row shows the total of the Ledger
\* record of its date when there is one and 0 when there is none.
C22_HistoryView ==
  LET v == historyView(history, today)
      rows == DOMAIN v
  IN /\ Cardinality(rows) = 14
     /\ {v[i].date : i \in rows} = (today - 13)..today
     /\ \A i \in rows : \A j \in rows : i < j => v[i].date > v[j].date
     /\ \A i \in rows :
          v[i].total = IF v[i].date \in DOMAIN history
                       THEN history[v[i].date].total ELSE 0

C22_Witness ==
  LET v == historyView(history, today)
  IN /\ today = 2
     /\ DOMAIN history = {0, 2}
     /\ history[0].total > 0
     /\ v[1] = [date |-> 2, total |-> history[2].total]
     /\ v[2] = [date |-> 1, total |-> 0]
     /\ v[3] = [date |-> 0, total |-> history[0].total]
     /\ v[14] = [date |-> -11, total |-> 0]

\* C24: no step of the counter (a tick and its count-to-history effect,
\* reset, clearToday, the rollover check, the calendar) adds, removes or
\* changes the Ledger record of a date other than today: every such record
\* keeps its date and total.
C24_PastRecordsKept ==
  [][/\ \A d \in DOMAIN history \ {today} :
          d \in DOMAIN history' /\ history'[d] = history[d]
     /\ \A d \in DOMAIN history' \ {today} : d \in DOMAIN history]_vars

C24_Witness ==
  /\ op.name = "clearToday"
  /\ today = pre.today
  /\ Has(pre.history, today)
  /\ ~Has(history, today)
  /\ \E d \in DOMAIN history :
       d < today /\ history[d].total > 0 /\ history[d] = pre.history[d]

\* C28: on every fetch event, a request of another origin is not answered by
\* the worker; a same-origin request whose URL is cached is answered from
\* the cache with no network fetch; one that is not cached is fetched from
\* the network and a copy of the response is handed to cache.put; when that
\* fetch fails the answer is the cached /index.html for a navigation request
\* and a failed request for any other.
C28_WorkerFetch ==
  [][\A req \in Requests :
       FetchEvent(req) =>
         LET a == sw'.last
             same == req.origin = "self"
             hit == req.url \in sw.cache
         IN /\ a.req = req
            /\ sw'.cache = sw.cache
            /\ ~same =>
                 a.from = "passthrough" /\ ~a.net /\ sw'.putting = sw.putting
            /\ (same /\ hit) =>
                 /\ a.from = "cache" /\ a.url = req.url /\ ~a.net
                 /\ sw'.putting = sw.putting
            /\ (same /\ ~hit /\ sw.online) =>
                 /\ a.from = "network" /\ a.url = req.url /\ a.net
                 /\ sw'.putting = sw.putting \cup {req.url}
            /\ (same /\ ~hit /\ ~sw.online) =>
                 /\ a.net
                 /\ sw'.putting = sw.putting
                 /\ req.mode = "navigate" => a.from = "cache" /\ a.url = "/index.html"
                 /\ req.mode # "navigate" => a.from = "error"]_vars

C28_Witness ==
  /\ ~sw.online
  /\ sw.last = Answer([url |-> "/tally", origin |-> "self", mode |-> "navigate"],
                      "cache", "/index.html", TRUE)
  /\ "/assets/index.js" \in sw.cache

====
